---- MODULE Spec2Model ----
(***************************************************************************)
(* Model of Mergin/plugin.py: the plugin entry point (MerginPlugin), the   *)
(* data item provider (DataItemProvider), the root browser item            *)
(* (MerginRootItem) and the project items (MerginProjectItem), together    *)
(* with the parts of the host they act on: the provider registry, the      *)
(* settings store (QSettings), the file system and the override cursor     *)
(* stack of QApplication.                                                  *)
(*                                                                         *)
(* Strings are sequences of tokens; a path is a sequence of one-character  *)
(* tokens ("/" is the separator).                                          *)
(***************************************************************************)
EXTENDS Integers, Sequences, FiniteSets, TLC

\* ---------------------------------------------------------------- bounds
MaxProviders == 3      \* DataItemProvider objects created by initGui
MaxRootItems == 2      \* MerginRootItem objects created by createDataItem
MaxProjects == 2       \* length of the list returned by projects_list
MaxCursor == 1         \* override cursors on the stack when download starts
MaxFiles == 2          \* files returned by find_qgis_files

\* ---------------------------------------------------------------- values
\* Python's None, and the truth value of `if x:` for None and strings
None == <<"None">>

Truthy(v) == v # None /\ v # <<>>

\* the project names the server may list
Names == {<<"a">>, <<"b">>}

\* the directories QFileDialog.getExistingDirectory may return when they exist
ParentDirs == {<<"/", "h">>}

\* exceptions a collaborator call may raise (subclasses of Exception)
Exceptions == {"URLError", "ValueError", "Other"}

\* the `except (URLError, ValueError)` clause of download
DownloadHandled == {"URLError", "ValueError"}

\* str(err) of an unexpected exception
Messages == {<<>>, <<"boom">>}

\* the path argument the host passes to createDataItem
HostPaths == {<<>>, <<"/", "a">>}

VARIABLES
    registry,            \* providers in dataItemProviderRegistry()
    data_item_provider,  \* MerginPlugin.data_item_provider (0 is None)
    providersCreated,    \* DataItemProvider objects constructed so far
    rootItems,           \* MerginRootItem objects constructed so far
    settings,            \* QSettings: key -> value
    fs,                  \* existing directories
    children,            \* the items last returned by createChildren
    cursor,              \* depth of QApplication's override cursor stack
    last                 \* what the last handler call did and showed

vars == <<registry, data_item_provider, providersCreated, rootItems,
          settings, fs, children, cursor, last>>

pluginVars == <<registry, data_item_provider, providersCreated, rootItems>>

browserVars == <<settings, fs, children, cursor>>

NoCall ==
    [op |-> "init", item |-> 0, viaMenu |-> FALSE, result |-> "none",
     open |-> "none", sets |-> 0, restores |-> 0, critical |-> FALSE,
     calls |-> 0, wrote |-> FALSE, escaped |-> "none", target |-> None,
     listed |-> <<>>, prev |-> <<>>]

Init ==
    /\ registry = {}
    /\ data_item_provider = 0
    /\ providersCreated = 0
    /\ rootItems = 0
    /\ settings = [k \in {} |-> None]
    /\ fs = {<<"/">>, <<"/", "h">>}
    /\ children = <<>>
    /\ cursor = 0
    /\ last = NoCall

\* ------------------------------------------------------ string helpers
\* os.path.join(a, b) on a POSIX host
join(a, b) ==
    IF b # <<>> /\ Head(b) = "/" THEN b
    ELSE IF a = <<>> \/ a[Len(a)] = "/" THEN a \o b
    ELSE a \o <<"/">> \o b

\* 'Mergin/localProjects/{}/path'.format(project_name)
PathKey(project_name) ==
    <<"Mergin", "/", "localProjects", "/">> \o project_name \o <<"/", "path">>

\* QSettings.value(key, default)
value(key, default) ==
    IF key \in DOMAIN settings THEN settings[key] ELSE default

\* setValue with the write lost
setValueLost(key, v) == settings

\* QSettings.setValue(key, v): the store afterwards
setValue(key, v) ==
    [k \in DOMAIN settings \cup {key} |-> IF k = key THEN v ELSE settings[k]]

\* remove that clears the whole group of local project records
removeGroup(key) == [k \in {} |-> None]

\* QSettings.remove(key): the key and the keys below it are removed
remove(key) ==
    [k \in {x \in DOMAIN settings :
              ~(x = key \/ (Len(x) > Len(key)
                            /\ SubSeq(x, 1, Len(key)) = key
                            /\ x[Len(key) + 1] = "/"))} |-> settings[k]]

\* p is the directory d or lies below it
Under(d, p) ==
    \/ p = d
    \/ /\ Len(p) > Len(d)
       /\ SubSeq(p, 1, Len(d)) = d
       /\ (d[Len(d)] = "/" \/ p[Len(d) + 1] = "/")

\* os.path.exists(p)
exists(p) == p \in fs

\* shutil.rmtree(p): the directories left
rmtree(p) == {q \in fs : ~Under(p, q)}

\* QApplication.setOverrideCursor / restoreOverrideCursor on a stack depth
setOverrideCursor(depth) == depth + 1

restoreOverrideCursor(depth) == IF depth > 0 THEN depth - 1 ELSE 0

\* ------------------------------------------------------ MerginPlugin
initGui ==
    /\ providersCreated < MaxProviders
    /\ providersCreated' = providersCreated + 1
    /\ data_item_provider' = providersCreated + 1
    /\ registry' = registry \cup {providersCreated + 1}
    /\ last' = [NoCall EXCEPT !.op = "initGui"]
    /\ UNCHANGED <<rootItems, browserVars>>

\* unload that forgets the provider without removing it from the registry
unloadKeepsProvider ==
    /\ registry' = registry
    /\ data_item_provider' = 0
    /\ last' = [NoCall EXCEPT !.op = "unload", !.item = data_item_provider]
    /\ UNCHANGED <<providersCreated, rootItems, browserVars>>

unload ==
    /\ registry' = registry \ {data_item_provider}
    /\ data_item_provider' = 0
    /\ last' = [NoCall EXCEPT !.op = "unload", !.item = data_item_provider]
    /\ UNCHANGED <<providersCreated, rootItems, browserVars>>

\* ------------------------------------------------------ DataItemProvider
\* createDataItem that builds a root item whatever the parent
createDataItemAlways(p, path, parentItem) ==
    /\ p \in registry
    /\ rootItems < MaxRootItems
    /\ rootItems' = rootItems + 1
    /\ last' = [NoCall EXCEPT !.op = "createDataItem", !.item = parentItem,
                              !.target = path, !.result = "root"]
    /\ UNCHANGED <<registry, data_item_provider, providersCreated, browserVars>>

\* the host asks a registered provider for an item; parentItem 0 is None
createDataItem(p, path, parentItem) ==
    /\ p \in registry
    /\ IF parentItem = 0
       THEN /\ rootItems < MaxRootItems
            /\ rootItems' = rootItems + 1
            /\ last' = [NoCall EXCEPT !.op = "createDataItem", !.item = parentItem,
                                      !.target = path, !.result = "root"]
       ELSE /\ rootItems' = rootItems
            /\ last' = [NoCall EXCEPT !.op = "createDataItem", !.item = parentItem,
                                      !.target = path, !.result = "None"]
    /\ UNCHANGED <<registry, data_item_provider, providersCreated, browserVars>>

\* ------------------------------------------------------ MerginProjectItem
\* the constructor without the os.path.exists re-check
MerginProjectItemNoCheck(project_name) ==
    LET stored == value(PathKey(project_name), None)
    IN [kind |-> "project",
        project_name |-> project_name,
        path |-> stored,
        icon |-> IF Truthy(stored) THEN "folder-solid.svg" ELSE "cloud-solid.svg"]

\* the constructor choosing the icon from the stored value, not from self.path
MerginProjectItemStaleIcon(project_name) ==
    LET stored == value(PathKey(project_name), None)
        path == IF Truthy(stored) /\ ~exists(stored) THEN None ELSE stored
    IN [kind |-> "project",
        project_name |-> project_name,
        path |-> path,
        icon |-> IF Truthy(stored) THEN "folder-solid.svg" ELSE "cloud-solid.svg"]

\* MerginProjectItem.__init__(parent, project_name): the item constructed
MerginProjectItem(project_name) ==
    LET stored == value(PathKey(project_name), None)
        path == IF Truthy(stored) /\ ~exists(stored) THEN None ELSE stored
    IN [kind |-> "project",
        project_name |-> project_name,
        path |-> path,
        icon |-> IF Truthy(path) THEN "folder-solid.svg" ELSE "cloud-solid.svg"]

\* MerginProjectItem.actions(parent): the labels of the actions returned
actions(self) ==
    IF Truthy(self.path)
    THEN <<"Open QGIS project", "Remove locally">>
    ELSE <<"Download">>

Offered(self, label) == \E k \in DOMAIN actions(self) : actions(self)[k] = label

\* MerginProjectItem.open_project on an item whose path is `path`; find is
\* what find_qgis_files does: it raises `raised`, or returns n files
open_project(path, raised, n) ==
    IF ~Truthy(path) THEN "nopath"
    ELSE IF raised # "none" THEN raised
    ELSE IF n = 1 THEN "read"
    ELSE "warn"

IsProject(i) == i \in DOMAIN children /\ children[i].kind = "project"

\* MerginProjectItem.download: parent_dir is the answer of the directory
\* dialog (empty when cancelled), dl the outcome of download_project,
\* partial whether a failed download left the target directory behind,
\* btn_reply the answer to "open project file?", raised/n what
\* find_qgis_files does in the follow-up open_project
download(i, parent_dir, dl, partial, btn_reply, raised, n) ==
    /\ IsProject(i)
    /\ LET self == children[i]
           call == [NoCall EXCEPT !.op = "download", !.item = i,
                                  !.viaMenu = Offered(self, "Download")]
           target_dir == join(parent_dir, self.project_name)
       IN IF ~Truthy(parent_dir)
          THEN /\ last' = [call EXCEPT !.result = "cancel"]
               /\ UNCHANGED <<settings, fs, children, cursor>>
          ELSE /\ cursor < MaxCursor
               /\ IF dl = "ok"
                  THEN LET opened == IF btn_reply = "Yes"
                                     THEN open_project(target_dir, raised, n)
                                     ELSE "none"
                           caught == opened \in DownloadHandled
                       IN /\ settings' = setValue(PathKey(self.project_name), target_dir)
                          /\ children' = [children EXCEPT
                                            ![i].path = target_dir,
                                            ![i].icon = "folder-solid.svg"]
                          /\ fs' = fs \cup {target_dir}
                          /\ cursor' = IF caught
                                       THEN restoreOverrideCursor(
                                              restoreOverrideCursor(setOverrideCursor(cursor)))
                                       ELSE restoreOverrideCursor(setOverrideCursor(cursor))
                          /\ last' = [call EXCEPT
                                        !.result = "ok", !.target = target_dir,
                                        !.calls = 1, !.wrote = TRUE, !.sets = 1,
                                        !.open = opened,
                                        !.restores = IF caught THEN 2 ELSE 1,
                                        !.critical = caught,
                                        !.escaped = IF opened \in Exceptions \ DownloadHandled
                                                    THEN opened ELSE "none"]
                  ELSE /\ fs' = IF partial THEN fs \cup {target_dir} ELSE fs
                       /\ cursor' = IF dl \in DownloadHandled
                                    THEN restoreOverrideCursor(setOverrideCursor(cursor))
                                    ELSE setOverrideCursor(cursor)
                       /\ last' = [call EXCEPT
                                     !.result = dl, !.target = target_dir,
                                     !.calls = 1, !.sets = 1,
                                     !.restores = IF dl \in DownloadHandled THEN 1 ELSE 0,
                                     !.critical = dl \in DownloadHandled,
                                     !.escaped = IF dl \in DownloadHandled
                                                 THEN "none" ELSE dl]
                       /\ UNCHANGED <<settings, children>>
    /\ UNCHANGED pluginVars

\* MerginProjectItem.remove_local_project: btn_reply answers the confirmation
remove_local_project(i, btn_reply) ==
    /\ IsProject(i)
    /\ LET self == children[i]
           call == [NoCall EXCEPT !.op = "remove", !.item = i,
                                  !.viaMenu = Offered(self, "Remove locally"),
                                  !.target = self.path]
       IN IF ~Truthy(self.path)
          THEN /\ last' = [call EXCEPT !.result = "nopath"]
               /\ UNCHANGED <<settings, fs, children>>
          ELSE IF btn_reply = "No"
          THEN /\ last' = [call EXCEPT !.result = "No"]
               /\ UNCHANGED <<settings, fs, children>>
          ELSE /\ fs' = IF exists(self.path) THEN rmtree(self.path) ELSE fs
               /\ settings' = remove(PathKey(self.project_name))
               /\ children' = [children EXCEPT ![i].path = None,
                                               ![i].icon = "cloud-solid.svg"]
               /\ last' = [call EXCEPT !.result = "Yes"]
    /\ UNCHANGED <<cursor, pluginVars>>

\* MerginProjectItem.open_project called from the context menu
openProject(i, raised, n) ==
    /\ IsProject(i)
    /\ LET self == children[i]
           opened == open_project(self.path, raised, n)
       IN last' = [NoCall EXCEPT !.op = "open", !.item = i,
                                 !.viaMenu = Offered(self, "Open QGIS project"),
                                 !.result = opened, !.open = opened,
                                 !.escaped = IF opened \in Exceptions
                                             THEN opened ELSE "none"]
    /\ UNCHANGED <<settings, fs, children, cursor, pluginVars>>

\* ------------------------------------------------------ MerginRootItem
\* one text for every failure
ErrorTextSame(failure, msg) == <<"Failed to get projects from server">>

\* the displayed text of the error item createChildren builds for a failure
ErrorText(failure, msg) ==
    IF failure = "Other" THEN <<"Error: ">> \o msg
    ELSE <<"Failed to get projects from server">>

QgsErrorItem(text) ==
    [kind |-> "error", project_name |-> text, path |-> None, icon |-> "error"]

\* the items built in reverse order
ProjectItemsReversed(projects) ==
    [k \in DOMAIN projects |->
       MerginProjectItem(projects[Len(projects) + 1 - k].name)]

\* the items createChildren builds from the list projects_list returned
ProjectItems(projects) ==
    [k \in DOMAIN projects |-> MerginProjectItem(projects[k].name)]

\* the failure (with its text) of the call before, when that call was a
\* createChildren that failed
PrevFailure ==
    IF last.op = "createChildren" /\ last.result # "ok"
    THEN <<last.result, children[1].project_name>>
    ELSE <<>>

\* MerginRootItem.createChildren: auth is the answer of auth_ok, listing the
\* outcome of projects_list ("ok" with the list projects, or an exception
\* whose str() is msg)
createChildren(auth, listing, projects, msg) ==
    /\ LET failure == IF ~auth THEN "authFail"
                      ELSE IF listing = "URLError" THEN "URLError"
                      ELSE IF listing # "ok" THEN "Other"
                      ELSE "ok"
           call == [NoCall EXCEPT !.op = "createChildren", !.result = failure,
                                  !.calls = IF auth THEN 1 ELSE 0,
                                  !.prev = PrevFailure]
       IN IF failure # "ok"
          THEN /\ children' = <<QgsErrorItem(ErrorText(failure, msg))>>
               /\ last' = call
          ELSE /\ children' = ProjectItems(projects)
               /\ last' = [call EXCEPT !.listed = projects]
    /\ UNCHANGED <<settings, fs, cursor, pluginVars>>

\* ------------------------------------------------------ environment
\* a project directory is removed outside the plugin
DirectoryRemoved(d) ==
    /\ d \in fs
    /\ d # <<"/">>
    /\ fs' = rmtree(d)
    /\ last' = [NoCall EXCEPT !.op = "external", !.target = d]
    /\ UNCHANGED <<settings, children, cursor, pluginVars>>

\* ------------------------------------------------------ specifications
\* the lists projects_list may return
ProjectLists ==
    UNION {[1..len -> [name : Names]] : len \in 0..MaxProjects}

\* what projects_list does once auth_ok has answered: nothing (not called),
\* return a list, or raise
ListingOutcomes(auth) ==
    IF ~auth THEN {[listing |-> "ok", projects |-> <<>>, msg |-> <<>>]}
    ELSE {[listing |-> "ok", projects |-> p, msg |-> <<>>] : p \in ProjectLists}
         \cup {[listing |-> "URLError", projects |-> <<>>, msg |-> <<>>]}
         \cup {[listing |-> e, projects |-> <<>>, msg |-> m] :
                 e \in Exceptions \ {"URLError"}, m \in Messages}

\* what find_qgis_files does: raise, or return n files
FindOutcomes ==
    {[raised |-> e, n |-> 0] : e \in Exceptions}
    \cup {[raised |-> "none", n |-> k] : k \in 0..MaxFiles}

\* what happens after the directory dialog of download returned parent_dir
DownloadOutcomes(parent_dir) ==
    IF ~Truthy(parent_dir)
    THEN {[dl |-> "ok", partial |-> FALSE, btn_reply |-> "No", raised |-> "none", n |-> 0]}
    ELSE {[dl |-> e, partial |-> b, btn_reply |-> "No", raised |-> "none", n |-> 0] :
            e \in Exceptions, b \in BOOLEAN}
         \cup {[dl |-> "ok", partial |-> FALSE, btn_reply |-> "No", raised |-> "none", n |-> 0]}
         \cup {[dl |-> "ok", partial |-> FALSE, btn_reply |-> "Yes",
                raised |-> f.raised, n |-> f.n] : f \in FindOutcomes}

NextBrowser ==
    \/ \E auth \in BOOLEAN : \E o \in ListingOutcomes(auth) :
         createChildren(auth, o.listing, o.projects, o.msg)
    \/ \E i \in DOMAIN children, parent_dir \in {<<>>} \cup (ParentDirs \cap fs) :
         \E o \in DownloadOutcomes(parent_dir) :
           download(i, parent_dir, o.dl, o.partial, o.btn_reply, o.raised, o.n)
    \/ \E i \in DOMAIN children, btn_reply \in {"Yes", "No"} :
         remove_local_project(i, btn_reply)
    \/ \E i \in DOMAIN children, f \in FindOutcomes :
         openProject(i, f.raised, f.n)
    \/ \E d \in fs : DirectoryRemoved(d)

NextPlugin ==
    \/ initGui
    \/ unload
    \/ \E p \in registry, path \in HostPaths, parentItem \in 0..rootItems :
         createDataItem(p, path, parentItem)

\* the browser: expansion of the root item and the project items' actions
Spec == Init /\ [][NextBrowser]_vars

\* the plugin entry point and the provider factory
SpecPlugin == Init /\ [][NextPlugin]_vars

\* ------------------------------------------------------ properties
FailedText == <<"Failed to get projects from server">>

\* the persisted record of project_name names a directory that is missing
Stale(project_name) ==
    /\ PathKey(project_name) \in DOMAIN settings
    /\ ~exists(settings[PathKey(project_name)])

\* C1: createChildren returns exactly one error item when auth_ok is false
\* or projects_list raises, and otherwise exactly one project item per entry
\* of the list projects_list returned, in the same order and with the
\* entry's name; no exception of projects_list escapes.
C1_ErrorOrOnePerProject ==
    last.op = "createChildren" =>
      /\ last.escaped = "none"
      /\ IF last.result # "ok"
         THEN /\ Len(children) = 1
              /\ children[1].kind = "error"
         ELSE /\ Len(children) = Len(last.listed)
              /\ \A k \in DOMAIN children :
                   /\ children[k].kind = "project"
                   /\ children[k].project_name = last.listed[k].name

C1_Witness ==
    /\ last.op = "createChildren"
    /\ last.result = "ok"
    /\ Len(children) = 2
    /\ children[1].project_name # children[2].project_name

\* C2 as stated: two createChildren calls that fail in different ways
\* (authentication, network, unexpected exception) never show the same text.
C2_DistinctTexts ==
    (/\ last.op = "createChildren"
     /\ last.result # "ok"
     /\ last.prev # <<>>
     /\ last.prev[1] # last.result)
    => last.prev[2] # children[1].project_name

\* C2 amended: an authentication failure and a network failure show the same
\* text, "Failed to get projects from server"; an unexpected exception shows
\* "Error: <message>", which differs from that text.
C2_TwoTexts ==
    (/\ last.op = "createChildren"
     /\ last.result # "ok")
    => /\ (last.result \in {"authFail", "URLError"}
             <=> children[1].project_name = FailedText)
       /\ (last.prev # <<>> /\ last.prev[1] # last.result) =>
            (last.prev[2] = children[1].project_name
               <=> {last.prev[1], last.result} = {"authFail", "URLError"})

C2_Witness ==
    /\ last.op = "createChildren"
    /\ last.result = "URLError"
    /\ last.prev # <<>>
    /\ last.prev[1] = "Other"

\* C3 as stated: once createChildren has constructed the project items, the
\* persisted path of every project listed points to an existing directory
\* (a stale record was removed when the item was constructed).
C3_PersistedPathHealed ==
    (last.op = "createChildren" /\ last.result = "ok") =>
      \A k \in DOMAIN children : ~Stale(children[k].project_name)

\* C3 amended: an item constructed for a project whose persisted record
\* names a missing directory holds no local path and shows the cloud icon;
\* the construction leaves the settings as they are, stale record included.
C3_ItemPathCleared ==
    [][last'.op = "createChildren" =>
         /\ settings' = settings
         /\ fs' = fs
         /\ last'.result = "ok" =>
              \A k \in DOMAIN children' :
                Stale(children'[k].project_name) =>
                  /\ children'[k].path = None
                  /\ children'[k].icon = "cloud-solid.svg"]_vars

C3_Witness ==
    /\ last.op = "createChildren"
    /\ last.result = "ok"
    /\ \E k \in DOMAIN children :
         /\ Stale(children[k].project_name)
         /\ children[k].path = None

\* C4: whenever download_project raises, download shows the critical
\* 'Project download' dialog and restores the override cursor it set.
C4_FailureShownAndCursorRestored ==
    (last.op = "download" /\ last.result \in Exceptions) =>
      /\ last.critical
      /\ last.restores = last.sets

\* C5 as stated: after unload no provider created by the plugin is still
\* registered and data_item_provider is None.
C5_NoProviderLeft ==
    last.op = "unload" => (registry = {} /\ data_item_provider = 0)

\* C5 amended: after unload data_item_provider is None and the provider it
\* held (the one the latest initGui created) is no longer registered;
\* providers of earlier initGui calls that no unload followed stay registered.
C5_HeldProviderRemoved ==
    [][last'.op = "unload" =>
         /\ data_item_provider' = 0
         /\ data_item_provider \notin registry'
         /\ registry' = registry \ {data_item_provider}]_vars

C5_Witness ==
    /\ last.op = "unload"
    /\ last.item # 0
    /\ registry # {}

\* C6: createDataItem returns a new MerginRootItem exactly when parentItem
\* is absent; with a parent item it returns None and creates no item,
\* whatever the path.
C6_RootOnlyForTopLevel ==
    [][last'.op = "createDataItem" =>
         /\ (last'.result = "root" <=> last'.item = 0)
         /\ (last'.result = "None" <=> last'.item # 0)
         /\ rootItems' = IF last'.item = 0 THEN rootItems + 1 ELSE rootItems]_vars

C6_Witness ==
    /\ last.op = "createDataItem"
    /\ last.item # 0
    /\ last.result = "None"
    /\ last.target # <<>>
    /\ rootItems > 0

\* C7: download changes the persisted record, the item's path and the icon
\* exactly when download_project returned: then all three reflect
\* <parent directory>/<project name>, and an item constructed afterwards
\* while the directory exists reads the same path back; on cancel or failure
\* the three are left unchanged, and cancel makes no client call.
C7_DownloadEffect ==
    [][last'.op = "download" =>
         LET i == last'.item
             name == children[i].project_name
             key == PathKey(name)
         IN IF last'.result = "ok"
            THEN /\ \E parent_dir \in ParentDirs :
                      last'.target = parent_dir \o <<"/">> \o name
                 /\ key \in DOMAIN settings'
                 /\ settings'[key] = last'.target
                 /\ children'[i].path = last'.target
                 /\ children'[i].icon = "folder-solid.svg"
                 /\ last'.target \in fs' =>
                      \A n \in Names : n = name => MerginProjectItem(n)' = children'[i]
                 /\ \A k \in DOMAIN settings \ {key} :
                      k \in DOMAIN settings' /\ settings'[k] = settings[k]
                 /\ \A j \in DOMAIN children \ {i} : children'[j] = children[j]
            ELSE /\ settings' = settings
                 /\ children' = children
                 /\ last'.result = "cancel" => last'.calls = 0]_vars

C7_Witness ==
    /\ last.op = "download"
    /\ last.result = "ok"
    /\ last.target \in fs
    /\ children[last.item].path = last.target
    /\ Cardinality(DOMAIN settings) = 2

C9_IconAndActionsFollowPath ==
    [][/\ \A k \in DOMAIN children' :
            children'[k].kind = "project" =>
              /\ children'[k].icon = IF Truthy(children'[k].path)
                                     THEN "folder-solid.svg" ELSE "cloud-solid.svg"
              /\ actions(children'[k]) = IF Truthy(children'[k].path)
                                         THEN <<"Open QGIS project", "Remove locally">>
                                         ELSE <<"Download">>
       /\ (last'.op = "download" /\ last'.viaMenu) =>
            ~Truthy(children[last'.item].path)
       /\ (last'.op = "remove" /\ last'.viaMenu) =>
            Truthy(children[last'.item].path)]_vars

C9_Witness ==
    /\ last.op = "remove"
    /\ last.result = "Yes"
    /\ last.viaMenu
    /\ \E k \in DOMAIN children : Truthy(children[k].path)
    /\ \E k \in DOMAIN children : Stale(children[k].project_name)

\* C10: in one call of download the failure dialog is never shown once the
\* persisted path was set, and the one setOverrideCursor call is matched by
\* exactly one restoreOverrideCursor call.
C10_ExclusiveAndBalanced ==
    (last.op = "download" /\ last.sets = 1) =>
      /\ last.restores = 1
      /\ ~(last.critical /\ last.wrote)

====
